---- MODULE Spec2Model ----
(***************************************************************************)
(* Model of the career-planning wealth calculator                          *)
(* (src/wealth_calculator.py, driven by run_simulation in src/config.py).  *)
(*                                                                         *)
(* Python floats are modelled as exact rationals [n, d] in lowest terms,   *)
(* extended with float('inf'), -inf and nan; IEEE rounding is not          *)
(* modelled.  A raised ZeroDivisionError is modelled as a distinguished    *)
(* value so that "no division by zero" is a checkable statement.           *)
(***************************************************************************)
EXTENDS Integers, Sequences, FiniteSets, TLC

\* ------------------------------------------------------------------------
\* Bounds of the model
\* ------------------------------------------------------------------------
\* longest career path (number of simulate_year calls on one calculator)
MaxYears == 3
\* largest number of brackets in an enumerated tax schedule
MaxBrackets == 2
\* largest income handed directly to the evaluator
MaxIncome == 4
\* largest number of schedules in an enumerated tax manager
MaxSchedules == 2

\* ------------------------------------------------------------------------
\* float arithmetic, as exact rationals
\* ------------------------------------------------------------------------
Abs(x) == IF x < 0 THEN -x ELSE x

RECURSIVE GCD(_, _)
GCD(a, b) == IF b = 0 THEN a ELSE GCD(b, a % b)

\* the rational n/d (d # 0) in lowest terms with a positive denominator
Frac(n, d) ==
    LET g == GCD(Abs(n), Abs(d))
        s == IF d < 0 THEN -1 ELSE 1
    IN  [n |-> (s * n) \div g, d |-> (s * d) \div g]

R(k) == [n |-> k, d |-> 1]
Zero == R(0)
One == R(1)
Inf == [n |-> 1, d |-> 0]
NegInf == [n |-> -1, d |-> 0]
NaN == [n |-> 0, d |-> 0]
\* the exception raised by float division by zero
ZeroDivisionError == [n |-> 0, d |-> -1]

IsFinite(a) == a.d > 0
IsNaN(a) == a = NaN

\* a < b on floats: every comparison with nan is false
Lt(a, b) ==
    IF IsNaN(a) \/ IsNaN(b) THEN FALSE
    ELSE IF IsFinite(a) /\ IsFinite(b) THEN a.n * b.d < b.n * a.d
    ELSE IF a = b THEN FALSE
    ELSE a = NegInf \/ b = Inf

\* a <= b on floats
Le(a, b) == IF IsNaN(a) \/ IsNaN(b) THEN FALSE ELSE a = b \/ Lt(a, b)

\* a + b on floats (inf + -inf is nan)
Add(a, b) ==
    IF IsNaN(a) \/ IsNaN(b) THEN NaN
    ELSE IF IsFinite(a) /\ IsFinite(b)
         THEN LET l == (a.d \div GCD(a.d, b.d)) * b.d
              IN  Frac(a.n * (l \div a.d) + b.n * (l \div b.d), l)
    ELSE IF IsFinite(a) THEN b
    ELSE IF IsFinite(b) THEN a
    ELSE IF a = b THEN a ELSE NaN

Neg(a) == [n |-> -a.n, d |-> a.d]

\* a - b on floats (inf - inf is nan)
Sub(a, b) == Add(a, Neg(b))

\* a * b on finite floats
Mul(a, b) ==
    LET g1 == GCD(Abs(a.n), b.d)
        g2 == GCD(Abs(b.n), a.d)
    IN  Frac((a.n \div g1) * (b.n \div g2), (a.d \div g2) * (b.d \div g1))

\* a / b on finite floats; Python raises ZeroDivisionError when b is 0
Div(a, b) ==
    IF b.n = 0 THEN ZeroDivisionError
    ELSE Mul(a, [n |-> (IF b.n < 0 THEN -b.d ELSE b.d), d |-> Abs(b.n)])

\* Python's builtin min(a, b): b if b < a, otherwise a
Min(a, b) == IF Lt(b, a) THEN b ELSE a

\* ------------------------------------------------------------------------
\* TaxBracket, TaxSchedule, TaxManager
\* ------------------------------------------------------------------------
TaxBracket(upper_limit, rate) == [upper_limit |-> upper_limit, rate |-> rate]

TaxManager(tax_location, income_tax_schedules) ==
    [tax_location |-> tax_location, income_tax_schedules |-> income_tax_schedules]

\* faulty variant: the bracket's width is taken from 0, not from the previous limit
TaxableInBracketFromZero(remaining_income, bracket, prev_bracket_limit) ==
    Min(remaining_income, bracket.upper_limit)

\* faulty variant: the remaining income is taken by its magnitude
TaxableInBracketOfMagnitude(remaining_income, bracket, prev_bracket_limit) ==
    Min(IF Lt(remaining_income, Zero) THEN Neg(remaining_income) ELSE remaining_income,
        Sub(bracket.upper_limit, prev_bracket_limit))

\* faulty variant: the width of the bracket is the distance between the limits
TaxableInBracketAbsWidth(remaining_income, bracket, prev_bracket_limit) ==
    LET width == Sub(bracket.upper_limit, prev_bracket_limit)
    IN  Min(remaining_income, IF Lt(width, Zero) THEN Neg(width) ELSE width)

\* taxable_in_bracket = min(remaining_income, bracket.upper_limit - prev_bracket_limit)
TaxableInBracket(remaining_income, bracket, prev_bracket_limit) ==
    Min(remaining_income, Sub(bracket.upper_limit, prev_bracket_limit))

\* faulty variant: total_tax = taxable_in_bracket * bracket.rate (assignment for +=)
AddBracketTaxOverwrite(total_tax, taxable_in_bracket, bracket) ==
    Mul(taxable_in_bracket, bracket.rate)

\* faulty variant: the tax accumulated so far is taxed again in each bracket
AddBracketTaxCompounding(total_tax, taxable_in_bracket, bracket) ==
    Add(total_tax, Mul(Add(taxable_in_bracket, total_tax), bracket.rate))

\* total_tax += taxable_in_bracket * bracket.rate
AddBracketTax(total_tax, taxable_in_bracket, bracket) ==
    Add(total_tax, Mul(taxable_in_bracket, bracket.rate))

\* faulty variant: remaining_income is never reduced
RemainingAfterUnchanged(remaining_income, taxable_in_bracket) == remaining_income

\* remaining_income -= taxable_in_bracket
RemainingAfter(remaining_income, taxable_in_bracket) ==
    Sub(remaining_income, taxable_in_bracket)

\* the for loop of get_effective_tax_rate from bracket k on; its value is the
\* total_tax with which the loop ends (by exhaustion or by break)
RECURSIVE BracketWalk(_, _, _, _, _)
BracketWalk(tax_schedule, k, total_tax, prev_bracket_limit, remaining_income) ==
    IF k > Len(tax_schedule) THEN total_tax
    ELSE LET bracket == tax_schedule[k]
             taxable_in_bracket ==
                 TaxableInBracket(remaining_income, bracket, prev_bracket_limit)
         IN  IF Le(taxable_in_bracket, Zero) THEN total_tax
             ELSE BracketWalk(tax_schedule, k + 1,
                              AddBracketTax(total_tax, taxable_in_bracket, bracket),
                              bracket.upper_limit,
                              RemainingAfter(remaining_income, taxable_in_bracket))

\* faulty variant: income above a finite last limit is taxed at the last rate
TotalTaxExcessAtLastRate(income, tax_schedule) ==
    LET total_tax == BracketWalk(tax_schedule, 1, Zero, Zero, income)
        n == Len(tax_schedule)
    IN  IF n >= 1 /\ IsFinite(tax_schedule[n].upper_limit)
             /\ Lt(tax_schedule[n].upper_limit, income)
        THEN Add(total_tax,
                 Mul(Sub(income, tax_schedule[n].upper_limit), tax_schedule[n].rate))
        ELSE total_tax

\* total_tax as the loop of get_effective_tax_rate leaves it
TotalTax(income, tax_schedule) == BracketWalk(tax_schedule, 1, Zero, Zero, income)

\* faulty variant: return total_tax / income, without the guard on income
RateOfTotalUnguarded(total_tax, income) == Div(total_tax, income)

\* faulty variant: return total_tax, the amount instead of the rate
RateOfTotalNoDivision(total_tax, income) == total_tax

\* return total_tax / income if income > 0 else 0.0
RateOfTotal(total_tax, income) ==
    IF Lt(Zero, income) THEN Div(total_tax, income) ELSE Zero

get_effective_tax_rate(income, tax_schedule) ==
    RateOfTotal(TotalTax(income, tax_schedule), income)

\* faulty variant: each schedule is evaluated on the income left after the
\* schedules before it
AccumulateRateAfterDeduction(effective_tax_rate, income, tax_schedule) ==
    Add(effective_tax_rate,
        get_effective_tax_rate(Mul(income, Sub(One, effective_tax_rate)), tax_schedule))

\* effective_tax_rate += get_effective_tax_rate(income, tax_schedule); an exception
\* raised by the call leaves the loop
AccumulateRate(effective_tax_rate, income, tax_schedule) ==
    LET r == get_effective_tax_rate(income, tax_schedule)
    IN  IF effective_tax_rate = ZeroDivisionError \/ r = ZeroDivisionError
        THEN ZeroDivisionError
        ELSE Add(effective_tax_rate, r)

\* the for loop of get_income_tax_rate from schedule k on
RECURSIVE ScheduleWalk(_, _, _, _)
ScheduleWalk(income_tax_schedules, k, effective_tax_rate, income) ==
    IF k > Len(income_tax_schedules) THEN effective_tax_rate
    ELSE ScheduleWalk(income_tax_schedules, k + 1,
                      AccumulateRate(effective_tax_rate, income, income_tax_schedules[k]),
                      income)

get_income_tax_rate(self, income) ==
    ScheduleWalk(self.income_tax_schedules, 1, Zero, income)

\* ------------------------------------------------------------------------
\* CompensationPackage
\* ------------------------------------------------------------------------
CompensationPackage(company, title, salary, tax_manager, bonus, retirement_match_percentage, rsu_grant, income_adjustment, comment) ==
    [company |-> company, title |-> title, salary |-> salary,
     tax_manager |-> tax_manager, bonus |-> bonus,
     retirement_match_percentage |-> retirement_match_percentage,
     rsu_grant |-> rsu_grant, income_adjustment |-> income_adjustment,
     comment |-> comment]

\* faulty variant: the income adjustment is counted as taxable income
GrossIncomeWithAdjustment(comp) ==
    Add(Add(Add(comp.salary, comp.bonus), comp.rsu_grant), comp.income_adjustment)

\* faulty variant: the RSU grant is left out of the income the rate is computed on
GrossIncomeWithoutRSU(comp) == Add(comp.salary, comp.bonus)

\* gross_income = salary + bonus + rsu_grant
GrossIncome(comp) == Add(Add(comp.salary, comp.bonus), comp.rsu_grant)

\* faulty variant: the tax manager is kept next to the effective tax rate
ToDictKeepingTaxManager(self) ==
    LET gross_income == GrossIncome(self)
        effective_tax_rate == get_income_tax_rate(self.tax_manager, gross_income)
    IN  ("Company" :> self.company) @@
        ("Title" :> self.title) @@
        ("Location" :> self.tax_manager.tax_location) @@
        ("Tax Manager" :> self.tax_manager.tax_location) @@
        ("Salary" :> self.salary) @@
        ("Bonus" :> self.bonus) @@
        ("Retirement Match %" :> self.retirement_match_percentage) @@
        ("RSU Grant" :> self.rsu_grant) @@
        ("Effective Tax Rate" :> effective_tax_rate) @@
        ("Income Adjustment" :> self.income_adjustment) @@
        ("Comment" :> self.comment)

\* faulty variant: the rate is computed on salary and bonus, as the comment says
ToDictRateOnSalaryAndBonus(self) ==
    LET gross_income == Add(self.salary, self.bonus)
        effective_tax_rate == get_income_tax_rate(self.tax_manager, gross_income)
    IN  ("Company" :> self.company) @@
        ("Title" :> self.title) @@
        ("Location" :> self.tax_manager.tax_location) @@
        ("Salary" :> self.salary) @@
        ("Bonus" :> self.bonus) @@
        ("Retirement Match %" :> self.retirement_match_percentage) @@
        ("RSU Grant" :> self.rsu_grant) @@
        ("Effective Tax Rate" :> effective_tax_rate) @@
        ("Income Adjustment" :> self.income_adjustment) @@
        ("Comment" :> self.comment)

to_dict(self) ==
    LET gross_income == GrossIncome(self)
        effective_tax_rate == get_income_tax_rate(self.tax_manager, gross_income)
    IN  ("Company" :> self.company) @@
        ("Title" :> self.title) @@
        ("Location" :> self.tax_manager.tax_location) @@
        ("Salary" :> self.salary) @@
        ("Bonus" :> self.bonus) @@
        ("Retirement Match %" :> self.retirement_match_percentage) @@
        ("RSU Grant" :> self.rsu_grant) @@
        ("Effective Tax Rate" :> effective_tax_rate) @@
        ("Income Adjustment" :> self.income_adjustment) @@
        ("Comment" :> self.comment)

\* ------------------------------------------------------------------------
\* WealthCalculator
\* ------------------------------------------------------------------------
VARIABLES
    current_wealth,              \* self.current_wealth
    year,                        \* self.year
    annual_history,              \* self.annual_history: year -> year_details
    compensation_history,        \* self.compensation_history: year -> comp_details
    assumed_real_market_growth,  \* self.assumed_real_market_growth
    initial_wealth,              \* the initial_wealth the calculator was constructed with
    initial_year,                \* the year the calculator was constructed with
    career_path,                 \* the packages the driver feeds to this calculator
    step,                        \* number of packages the driver's loop has consumed
    outcome,                     \* how the last simulate_year call ended
    result,                      \* value returned by the last simulate_year call
    call,                        \* last direct call of the tax evaluator
    fleet,                       \* several calculators side by side: name -> attributes
    heap                         \* the dict objects the calculators of the fleet refer to

simVars == <<current_wealth, year, annual_history, compensation_history,
             assumed_real_market_growth, initial_wealth, initial_year,
             career_path, step, outcome, result>>
vars == <<current_wealth, year, annual_history, compensation_history,
          assumed_real_market_growth, initial_wealth, initial_year,
          career_path, step, outcome, result, call, fleet, heap>>
fleetVars == <<fleet, heap>>

\* amount * (1 - income_tax_rate)
NetOfTax(amount, income_tax_rate) == Mul(amount, Sub(One, income_tax_rate))

\* faulty variant: the match is taken on salary, bonus and RSU grant together
RetirementMatchOnGross(comp) == Mul(GrossIncome(comp), comp.retirement_match_percentage)

\* retirement_match = comp.salary * comp.retirement_match_percentage
RetirementMatch(comp) == Mul(comp.salary, comp.retirement_match_percentage)

\* faulty variant: the burden is what is left after tax, not what is taken
TotalTaxBurdenOfNet(gross_income, income_tax_rate) ==
    Mul(gross_income, Sub(One, income_tax_rate))

\* total_tax_burden = (gross_income) * income_tax_rate
TotalTaxBurden(gross_income, income_tax_rate) == Mul(gross_income, income_tax_rate)

\* faulty variant: a negative income adjustment is clamped to 0
NetIncomeClampedAdjustment(comp, income_tax_rate) ==
    Add(Add(Add(Add(NetOfTax(comp.salary, income_tax_rate),
                    NetOfTax(comp.bonus, income_tax_rate)),
                NetOfTax(comp.rsu_grant, income_tax_rate)),
            RetirementMatch(comp)),
        IF Lt(comp.income_adjustment, Zero) THEN Zero ELSE comp.income_adjustment)

\* net_income = net_salary + net_bonus + net_rsus + retirement_match + comp.income_adjustment
NetIncome(comp, income_tax_rate) ==
    Add(Add(Add(Add(NetOfTax(comp.salary, income_tax_rate),
                    NetOfTax(comp.bonus, income_tax_rate)),
                NetOfTax(comp.rsu_grant, income_tax_rate)),
            RetirementMatch(comp)),
        comp.income_adjustment)

\* faulty variant: the gain is the grown balance, the balance itself included
UnrealizedInvestmentGainCompounded(wealth, growth) == Mul(wealth, Add(One, growth))

\* unrealized_investment_gain = self.current_wealth * self.assumed_real_market_growth
UnrealizedInvestmentGain(wealth, growth) == Mul(wealth, growth)

\* faulty variant: the growth rate is applied after net income has been added
UpdatedWealthGrowthAfterIncome(wealth, unrealized_investment_gain, net_income) ==
    Add(Add(wealth, net_income),
        Mul(Add(wealth, net_income), assumed_real_market_growth))

\* faulty variant: the investment gain is taken off the balance
UpdatedWealthGainSubtracted(wealth, unrealized_investment_gain, net_income) ==
    Add(Sub(wealth, unrealized_investment_gain), net_income)

\* self.current_wealth += unrealized_investment_gain; self.current_wealth += net_income
UpdatedWealth(wealth, unrealized_investment_gain, net_income) ==
    Add(Add(wealth, unrealized_investment_gain), net_income)

\* the year_details record of simulate_year
YearDetails(comp, comp_details, gross_income, income_tax_rate, net_income, unrealized_investment_gain, wealth) ==
    ("Company" :> comp_details["Company"]) @@
    ("Title" :> comp_details["Title"]) @@
    ("Location" :> comp_details["Location"]) @@
    ("Comment" :> comp_details["Comment"]) @@
    ("Gross Salary" :> comp.salary) @@
    ("Gross Bonus" :> comp.bonus) @@
    ("Gross RSUs" :> comp.rsu_grant) @@
    ("Retirement Match %" :> comp.retirement_match_percentage) @@
    ("Gross Income" :> gross_income) @@
    ("Effective Tax Rate" :> income_tax_rate) @@
    ("Total Tax Burden" :> TotalTaxBurden(gross_income, income_tax_rate)) @@
    ("Net Salary" :> NetOfTax(comp.salary, income_tax_rate)) @@
    ("Net Bonus" :> NetOfTax(comp.bonus, income_tax_rate)) @@
    ("Net RSUs" :> NetOfTax(comp.rsu_grant, income_tax_rate)) @@
    ("Retirement Match" :> RetirementMatch(comp)) @@
    ("Income Adjustment" :> comp.income_adjustment) @@
    ("Net Income" :> net_income) @@
    ("Unrealized Investment Gain" :> unrealized_investment_gain) @@
    ("Total Earned Wealth" :> wealth)

\* faulty variant: the history is replaced by a dict holding the new entry only
StoreAtOnly(history, key, details) == (key :> details)

\* history[key] = details: a dict assignment, which replaces an existing entry
StoreAt(history, key, details) == (key :> details) @@ history

\* faulty variant: the year counter is not advanced
IncrementYearStuck(y) == y

\* faulty variant: the year counter skips a year
IncrementYearTwice(y) == y + 2

\* self.year += 1
IncrementYear(y) == y + 1

\* faulty variant: the wealth from before the update is returned
ReturnValueStale(wealth) == current_wealth

\* return self.current_wealth
ReturnValue(wealth) == wealth

\* faulty variant: the one-time income adjustment of the package is reset once
\* it has been applied
SimulateYearConsumingAdjustment ==
    /\ step < Len(career_path)
    /\ outcome # "raised"
    /\ LET comp == career_path[step + 1]
           gross_income == GrossIncome(comp)
           income_tax_rate == get_income_tax_rate(comp.tax_manager, gross_income)
       IN  IF income_tax_rate = ZeroDivisionError
           THEN \* the exception leaves simulate_year before anything is assigned
                /\ outcome' = "raised"
                /\ UNCHANGED <<current_wealth, year, annual_history,
                               compensation_history, result>>
           ELSE LET net_income == NetIncome(comp, income_tax_rate)
                    unrealized_investment_gain ==
                        UnrealizedInvestmentGain(current_wealth, assumed_real_market_growth)
                    wealth == UpdatedWealth(current_wealth, unrealized_investment_gain,
                                            net_income)
                    comp_details == to_dict(comp)
                    year_details == YearDetails(comp, comp_details, gross_income,
                                                income_tax_rate, net_income,
                                                unrealized_investment_gain, wealth)
                IN  /\ current_wealth' = wealth
                    /\ annual_history' = StoreAt(annual_history, year, year_details)
                    /\ compensation_history' =
                           StoreAt(compensation_history, year, comp_details)
                    /\ year' = IncrementYear(year)
                    /\ result' = ReturnValue(wealth)
                    /\ outcome' = "returned"
    /\ step' = step + 1
    /\ career_path' = [career_path EXCEPT ![step + 1].income_adjustment = Zero]
    /\ UNCHANGED <<assumed_real_market_growth, initial_wealth, initial_year,
                   call, fleet, heap>>

\* WealthCalculator.simulate_year(comp), called by the driver's loop with the next
\* package of the career path
SimulateYear ==
    /\ step < Len(career_path)
    /\ outcome # "raised"
    /\ LET comp == career_path[step + 1]
           gross_income == GrossIncome(comp)
           income_tax_rate == get_income_tax_rate(comp.tax_manager, gross_income)
       IN  IF income_tax_rate = ZeroDivisionError
           THEN \* the exception leaves simulate_year before anything is assigned
                /\ outcome' = "raised"
                /\ UNCHANGED <<current_wealth, year, annual_history,
                               compensation_history, result>>
           ELSE LET net_income == NetIncome(comp, income_tax_rate)
                    unrealized_investment_gain ==
                        UnrealizedInvestmentGain(current_wealth, assumed_real_market_growth)
                    wealth == UpdatedWealth(current_wealth, unrealized_investment_gain,
                                            net_income)
                    comp_details == to_dict(comp)
                    year_details == YearDetails(comp, comp_details, gross_income,
                                                income_tax_rate, net_income,
                                                unrealized_investment_gain, wealth)
                IN  /\ current_wealth' = wealth
                    /\ annual_history' = StoreAt(annual_history, year, year_details)
                    /\ compensation_history' =
                           StoreAt(compensation_history, year, comp_details)
                    /\ year' = IncrementYear(year)
                    /\ result' = ReturnValue(wealth)
                    /\ outcome' = "returned"
    /\ step' = step + 1
    /\ UNCHANGED <<assumed_real_market_growth, initial_wealth, initial_year,
                   career_path, call, fleet, heap>>

\* ------------------------------------------------------------------------
\* The driver: tax tables, tax managers, career paths (src/config.py)
\* ------------------------------------------------------------------------
\* comment: str | None = None
None == "None"

\* progressive tables in the shape of federal_brackets and sc_brackets, scaled down
federal_brackets ==
    <<TaxBracket(R(1), Zero), TaxBracket(R(3), Frac(1, 4)), TaxBracket(Inf, Frac(1, 2))>>
sc_brackets == <<TaxBracket(R(2), Zero), TaxBracket(Inf, Frac(1, 4))>>
nyc_brackets == <<TaxBracket(Inf, Frac(1, 4))>>
\* a single bracket yielding the rate 0.20 at every income
flat_brackets == <<TaxBracket(Inf, Frac(1, 5))>>

tax_managers ==
    [SC |-> TaxManager("SC", <<federal_brackets, sc_brackets>>),
     NYC |-> TaxManager("NYC", <<federal_brackets, sc_brackets, nyc_brackets>>),
     FLAT |-> TaxManager("FLAT", <<flat_brackets>>),
     NONE |-> TaxManager("NONE", <<>>)]

\* the packages career paths are made of
Packages ==
    { CompensationPackage("GE", "LPB Engineer", R(2), tax_managers.SC,
                          R(1), Frac(1, 2), Zero, Zero, None),
      CompensationPackage("Google", "SWE II", R(3), tax_managers.NYC,
                          Zero, Zero, R(1), R(-2), "relocation"),
      CompensationPackage("GE", "Sabbatical", Zero, tax_managers.SC,
                          Zero, Zero, Zero, R(-1), None),
      CompensationPackage("Datadog", "Intern", R(1), tax_managers.NONE,
                          Zero, Zero, Zero, Zero, None),
      \* nothing validates the amounts: a bonus paid back is a negative bonus
      CompensationPackage("GE", "Clawback", Zero, tax_managers.SC,
                          R(-1), Zero, Zero, Zero, "bonus repaid") }

\* salary=100000, bonus=0, equity_grant=0, retirement_match_rate=0,
\* income_adjustment=0, taxed at 0.20
ScenarioPackage ==
    CompensationPackage("Scenario", "Engineer", R(100000), tax_managers.FLAT,
                        Zero, Zero, Zero, Zero, None)

\* all sequences over S of length at most n
SeqsUpTo(S, n) == UNION { [1..k -> S] : k \in 0..n }

\* constructor arguments and career path of one calculator
Runs ==
    ([initial_wealth : {R(2), R(-3)}, year : {0, 2025},
      assumed_real_market_growth : {Zero, Frac(1, 2)},
      career_path : SeqsUpTo(Packages, MaxYears)])
    \cup
    \* WealthCalculator() with its default arguments
    ([initial_wealth : {Zero}, year : {0},
      assumed_real_market_growth : {Frac(7, 100)},
      career_path : SeqsUpTo(Packages, MaxYears)])
    \cup
    ([initial_wealth : {R(100000)}, year : {2025},
      assumed_real_market_growth : {Frac(7, 100)},
      career_path : SeqsUpTo({ScenarioPackage}, MaxYears)])

\* no direct evaluator call is in progress
NoCall ==
    [fn |-> "none", income |-> Zero, tax_schedule |-> <<>>,
     income_tax_schedules |-> <<>>, returned |-> FALSE, rate |-> Zero]

\* WealthCalculator.__init__(initial_wealth, year, assumed_real_market_growth)
Construct(run) ==
    /\ current_wealth = run.initial_wealth
    /\ year = run.year
    /\ annual_history = <<>>
    /\ compensation_history = <<>>
    /\ assumed_real_market_growth = run.assumed_real_market_growth
    /\ initial_wealth = run.initial_wealth
    /\ initial_year = run.year
    /\ career_path = run.career_path
    /\ step = 0
    /\ outcome = "not called"
    /\ result = Zero

\* no fleet of calculators has been constructed
NoFleet == fleet = <<>> /\ heap = <<>>

Init ==
    /\ \E run \in Runs : Construct(run)
    /\ call = NoCall
    /\ NoFleet

Next == SimulateYear

Spec == Init /\ [][Next]_vars

\* ------------------------------------------------------------------------
\* Direct calls of the tax evaluator
\* ------------------------------------------------------------------------
\* incomes handed to the evaluator (a negative one included: nothing rejects it)
Incomes == { R(k) : k \in -1..MaxIncome }
Limits == {R(1), R(2), Inf}
Rates == {Zero, Frac(1, 4), Frac(1, 2), One}
Brackets == { TaxBracket(u, r) : u \in Limits, r \in Rates }
\* every list of brackets, well formed or not (TaxSchedule = list[TaxBracket])
Schedules == SeqsUpTo(Brackets, MaxBrackets)

\* a schedule whose limits decrease
unordered_brackets == <<TaxBracket(R(2), Frac(1, 2)), TaxBracket(R(1), Frac(1, 4))>>
StackableSchedules ==
    {federal_brackets, sc_brackets, flat_brackets, unordered_brackets, <<>>}
ScheduleLists == SeqsUpTo(StackableSchedules, MaxSchedules)

\* the first two federal brackets and an unbounded third one, income 50000
scenario_brackets ==
    <<TaxBracket(R(11925), Frac(10, 100)), TaxBracket(R(48475), Frac(12, 100)),
      TaxBracket(Inf, Frac(22, 100))>>
ScenarioCall ==
    [fn |-> "get_effective_tax_rate", income |-> R(50000),
     tax_schedule |-> scenario_brackets, income_tax_schedules |-> <<>>,
     returned |-> FALSE, rate |-> Zero]

\* the calls a caller can make
PendingCalls ==
    {ScenarioCall}
    \cup
    { [fn |-> "get_effective_tax_rate", income |-> i, tax_schedule |-> s,
       income_tax_schedules |-> <<>>, returned |-> FALSE, rate |-> Zero] :
      i \in Incomes, s \in Schedules }
    \cup
    { [fn |-> "get_income_tax_rate", income |-> i, tax_schedule |-> <<>>,
       income_tax_schedules |-> l, returned |-> FALSE, rate |-> Zero] :
      i \in Incomes, l \in ScheduleLists }

\* TaxManager.get_effective_tax_rate(income, tax_schedule) called and returning
GetEffectiveTaxRate ==
    /\ call.fn = "get_effective_tax_rate"
    /\ ~call.returned
    /\ call' = [call EXCEPT !.returned = TRUE,
                            !.rate = get_effective_tax_rate(call.income, call.tax_schedule)]
    /\ UNCHANGED <<simVars, fleet, heap>>

\* TaxManager(...).get_income_tax_rate(income) called and returning
GetIncomeTaxRate ==
    /\ call.fn = "get_income_tax_rate"
    /\ ~call.returned
    /\ call' = [call EXCEPT !.returned = TRUE,
                            !.rate = get_income_tax_rate(
                                         TaxManager("X", call.income_tax_schedules),
                                         call.income)]
    /\ UNCHANGED <<simVars, fleet, heap>>

EvalInit ==
    /\ Construct([initial_wealth |-> Zero, year |-> 0,
                  assumed_real_market_growth |-> Frac(7, 100), career_path |-> <<>>])
    /\ call \in PendingCalls
    /\ NoFleet

EvalNext == GetEffectiveTaxRate \/ GetIncomeTaxRate

EvalSpec == EvalInit /\ [][EvalNext]_vars

\* ------------------------------------------------------------------------
\* Several calculators side by side (WealthCalculator instances sharing the
\* packages of one career path, driven in any interleaving)
\* ------------------------------------------------------------------------
\* the calculators constructed next to each other
Calculators == {1, 2}

\* packages of the career path the calculators are driven along
FleetPackages == { p \in Packages : p.title \in {"LPB Engineer", "Sabbatical", "Intern"} }

\* growth rates handed to the constructors; the constructor accepts any float
FleetGrowths == {R(-3), R(-2), Zero, Frac(1, 2)}

\* constructor arguments of the calculators, numbered by ascending growth rate,
\* and the career path they share
FleetRuns ==
    [initial_wealth : {Frac(1, 2)}, year : {2025},
     assumed_real_market_growth :
         { g \in [Calculators -> FleetGrowths] : Le(g[1], g[2]) },
     career_path : SeqsUpTo(FleetPackages, MaxYears)]

\* faulty variant: one dict per attribute shared by every instance
DictObjectShared(self, attribute) == <<1, attribute>>

\* self.annual_history = {} / self.compensation_history = {}: a dict object
\* created by the constructor call of instance self
DictObject(self, attribute) == <<self, attribute>>

\* WealthCalculator.__init__ for instance self of the fleet
NewCalculator(self, run) ==
    [current_wealth |-> run.initial_wealth,
     year |-> run.year,
     annual_history |-> DictObject(self, "annual_history"),
     compensation_history |-> DictObject(self, "compensation_history"),
     assumed_real_market_growth |-> run.assumed_real_market_growth,
     initial_wealth |-> run.initial_wealth,
     initial_year |-> run.year,
     career_path |-> run.career_path,
     step |-> 0,
     outcome |-> "not called"]

\* the values simulate_year computes for calculator self and package comp
SimulationOf(self, comp) ==
    LET gross_income == GrossIncome(comp)
        income_tax_rate == get_income_tax_rate(comp.tax_manager, gross_income)
        net_income == NetIncome(comp, income_tax_rate)
        unrealized_investment_gain ==
            UnrealizedInvestmentGain(self.current_wealth, self.assumed_real_market_growth)
        wealth == UpdatedWealth(self.current_wealth, unrealized_investment_gain, net_income)
        comp_details == to_dict(comp)
    IN  IF income_tax_rate = ZeroDivisionError
        THEN [raised |-> TRUE]
        ELSE [raised |-> FALSE,
              wealth |-> wealth,
              comp_details |-> comp_details,
              year_details |-> YearDetails(comp, comp_details, gross_income,
                                           income_tax_rate, net_income,
                                           unrealized_investment_gain, wealth)]

\* calculator i of the fleet runs simulate_year on the next package of its path
FleetSimulateYear(i) ==
    LET self == fleet[i]
    IN  /\ self.step < Len(self.career_path)
        /\ self.outcome # "raised"
        /\ LET sim == SimulationOf(self, self.career_path[self.step + 1])
           IN  IF sim.raised
               THEN /\ fleet' = [fleet EXCEPT ![i].outcome = "raised",
                                              ![i].step = self.step + 1]
                    /\ UNCHANGED heap
               ELSE /\ heap' =
                           [o \in DOMAIN heap |->
                               IF o = self.compensation_history
                               THEN StoreAt(heap[o], self.year, sim.comp_details)
                               ELSE IF o = self.annual_history
                               THEN StoreAt(heap[o], self.year, sim.year_details)
                               ELSE heap[o]]
                    /\ fleet' = [fleet EXCEPT ![i].current_wealth = sim.wealth,
                                              ![i].year = IncrementYear(self.year),
                                              ![i].outcome = "returned",
                                              ![i].step = self.step + 1]
        /\ UNCHANGED <<simVars, call>>

FleetInit ==
    /\ \E run \in FleetRuns :
          fleet = [i \in Calculators |->
                      NewCalculator(i, [initial_wealth |-> run.initial_wealth,
                                        year |-> run.year,
                                        assumed_real_market_growth |->
                                            run.assumed_real_market_growth[i],
                                        career_path |-> run.career_path])]
    /\ heap = [o \in { DictObject(i, a) : i \in Calculators,
                           a \in {"annual_history", "compensation_history"} } |-> <<>>]
    /\ Construct([initial_wealth |-> Zero, year |-> 0,
                  assumed_real_market_growth |-> Frac(7, 100), career_path |-> <<>>])
    /\ call = NoCall

FleetNext == \E i \in Calculators : FleetSimulateYear(i)

FleetSpec == FleetInit /\ [][FleetNext]_vars

\* ------------------------------------------------------------------------
\* One calculator whose caller also reads the histories, converts packages
\* and calls the tax evaluator between the years
\* ------------------------------------------------------------------------
\* packages of the career path and of the direct to_dict calls
FramePackages == { p \in Packages : p.title \in {"LPB Engineer", "SWE II"} }

\* constructor arguments and career path
FrameRuns ==
    [initial_wealth : {Zero, R(2)}, year : {2025},
     assumed_real_market_growth : {Frac(1, 2)},
     career_path : SeqsUpTo(FramePackages, MaxYears)]

\* the direct evaluator calls the caller makes
FrameCalls ==
    { ScenarioCall,
      [fn |-> "get_effective_tax_rate", income |-> R(3), tax_schedule |-> federal_brackets,
       income_tax_schedules |-> <<>>, returned |-> FALSE, rate |-> Zero],
      [fn |-> "get_income_tax_rate", income |-> R(3), tax_schedule |-> <<>>,
       income_tax_schedules |-> <<federal_brackets, sc_brackets>>,
       returned |-> FALSE, rate |-> Zero] }

\* the keys of a dict in insertion order; years are inserted in ascending order
RECURSIVE KeysInOrder(_)
KeysInOrder(S) ==
    IF S = {} THEN <<>>
    ELSE LET last == CHOOSE k \in S : \A j \in S : j <= k
         IN  Append(KeysInOrder(S \ {last}), last)

\* pd.DataFrame.from_dict(history, orient="index"): one row per key, one column
\* per key of the rows, NaN where a row lacks a column
DataFrameFromDict(history) ==
    LET columns == UNION { DOMAIN history[k] : k \in DOMAIN history }
    IN  [index |-> KeysInOrder(DOMAIN history),
         columns |-> columns,
         at |-> [k \in DOMAIN history |->
                    [c \in columns |->
                        IF c \in DOMAIN history[k] THEN history[k][c] ELSE NaN]]]

\* calls are synchronous: the caller makes a call once the previous one is over
Idle == call.fn = "none" \/ call.returned

\* WealthCalculator.get_compensation_history_df()
GetCompensationHistoryDf ==
    /\ Idle
    /\ call' = [fn |-> "get_compensation_history_df", returned |-> TRUE,
                value |-> DataFrameFromDict(compensation_history)]
    /\ UNCHANGED <<simVars, fleet, heap>>

\* faulty variant: the accessor hands the history over and starts a new one
GetWorthHistoryDfClearing ==
    /\ Idle
    /\ call' = [fn |-> "get_worth_history_df", returned |-> TRUE,
                value |-> DataFrameFromDict(annual_history)]
    /\ annual_history' = <<>>
    /\ UNCHANGED <<current_wealth, year, compensation_history,
                   assumed_real_market_growth, initial_wealth, initial_year,
                   career_path, step, outcome, result, fleet, heap>>

\* WealthCalculator.get_worth_history_df()
GetWorthHistoryDf ==
    /\ Idle
    /\ call' = [fn |-> "get_worth_history_df", returned |-> TRUE,
                value |-> DataFrameFromDict(annual_history)]
    /\ UNCHANGED <<simVars, fleet, heap>>

\* CompensationPackage.to_dict() called by the caller itself
CallToDict ==
    /\ Idle
    /\ \E comp \in FramePackages :
          call' = [fn |-> "to_dict", returned |-> TRUE, value |-> to_dict(comp)]
    /\ UNCHANGED <<simVars, fleet, heap>>

\* the caller starts a direct evaluator call
CallEvaluator ==
    /\ Idle
    /\ call' \in FrameCalls
    /\ UNCHANGED <<simVars, fleet, heap>>

FrameInit ==
    /\ \E run \in FrameRuns : Construct(run)
    /\ call = NoCall
    /\ NoFleet

FrameNext ==
    \/ SimulateYear
    \/ GetCompensationHistoryDf
    \/ GetWorthHistoryDf
    \/ CallToDict
    \/ CallEvaluator
    \/ GetEffectiveTaxRate
    \/ GetIncomeTaxRate

FrameSpec == FrameInit /\ [][FrameNext]_vars

\* ------------------------------------------------------------------------
\* Properties
\* ------------------------------------------------------------------------
\* the years initial_year, ..., initial_year + n - 1
YearsFrom(y0, n) == { y0 + k : k \in 0..(n - 1) }

\* C1: after N simulate_year calls both histories hold exactly N entries, and the
\* key set of each is {y0, ..., y0 + N - 1}, y0 the year given to the constructor.
C1_HistoryHasOneEntryPerCall ==
    /\ DOMAIN annual_history = YearsFrom(initial_year, step)
    /\ DOMAIN compensation_history = YearsFrom(initial_year, step)
    /\ Cardinality(DOMAIN annual_history) = step
    /\ Cardinality(DOMAIN compensation_history) = step

C1_Witness ==
    /\ step = 3
    /\ initial_year = 2025
    /\ DOMAIN annual_history = {2025, 2026, 2027}

\* C2: a simulate_year call takes wealth w to w * (1 + g) + n, n the net income it
\* records, and records the growth w * g of the balance from before the call; in
\* the scenario w = 100000, g = 0.07, salary 100000 taxed at 0.20, the growth is
\* 7000, the net income 80000 and the wealth 187000.
C2_GrowthOnPriorBalance ==
    [][ LET details == annual_history'[year]
            g == assumed_real_market_growth
        IN  /\ details["Unrealized Investment Gain"] = Mul(current_wealth, g)
            /\ current_wealth' =
                   Add(Mul(current_wealth, Add(One, g)), details["Net Income"])
            /\ (/\ current_wealth = R(100000)
                /\ g = Frac(7, 100)
                /\ career_path[step + 1] = ScenarioPackage)
               => /\ details["Unrealized Investment Gain"] = R(7000)
                  /\ details["Net Income"] = R(80000)
                  /\ current_wealth' = R(187000) ]_vars

C2_Witness ==
    /\ step = 1
    /\ initial_wealth = R(100000)
    /\ current_wealth = R(187000)
    /\ annual_history[2025]["Unrealized Investment Gain"] = R(7000)
    /\ annual_history[2025]["Net Income"] = R(80000)
    \* growth on the balance after income would have given another wealth
    /\ current_wealth # Mul(R(180000), Add(One, assumed_real_market_growth))

\* C3: a recorded year is never changed, replaced or removed by a later
\* simulate_year call, and every call writes at a key that was absent before it.
C3_RecordedYearsAreImmutable ==
    [][ /\ \A k \in DOMAIN annual_history :
              /\ k \in DOMAIN annual_history'
              /\ annual_history'[k] = annual_history[k]
        /\ \A k \in DOMAIN compensation_history :
              /\ k \in DOMAIN compensation_history'
              /\ compensation_history'[k] = compensation_history[k]
        /\ year \notin DOMAIN annual_history
        /\ year \notin DOMAIN compensation_history
        /\ DOMAIN annual_history' = DOMAIN annual_history \cup {year}
        /\ DOMAIN compensation_history' = DOMAIN compensation_history \cup {year} ]_vars

C3_Witness ==
    /\ step = 3
    /\ Cardinality(DOMAIN annual_history) = 3
    /\ annual_history[initial_year] # annual_history[initial_year + 2]

\* C4: every simulate_year call raises the year counter by exactly 1, so the counter
\* equals the initial year plus the number of calls made, and the call's snapshot is
\* keyed by the counter's value at the start of the call.
C4_YearCounterStepsByOne ==
    /\ year = initial_year + step
    /\ [][ /\ year' = year + 1
           /\ year' = initial_year + step'
           /\ step' = step + 1
           /\ DOMAIN annual_history' \ DOMAIN annual_history = {year}
           /\ DOMAIN compensation_history' \ DOMAIN compensation_history = {year}
           /\ annual_history'[year]["Total Earned Wealth"] = current_wealth' ]_vars

C4_Witness ==
    /\ step = 2
    /\ initial_year = 2025
    /\ year = 2027
    /\ 2026 \in DOMAIN annual_history

\* C5: at income 0 the effective rate of every schedule, malformed ones included, and
\* the stacked rate of every tax manager is 0 and no division by zero is raised; a
\* simulate_year call with salary, bonus and RSU grant all 0 returns, recording
\* the effective tax rate 0.
C5_ZeroIncomeHasZeroRate ==
    \* the evaluator is stateless: its part is evaluated once per constructor call
    /\ (step = 0 /\ career_path = <<>>) =>
          /\ \A s \in Schedules : get_effective_tax_rate(Zero, s) = Zero
          /\ \A l \in ScheduleLists :
                get_income_tax_rate(TaxManager("X", l), Zero) = Zero
    /\ outcome # "raised"
    /\ \A y \in DOMAIN annual_history :
          (/\ annual_history[y]["Gross Salary"] = Zero
           /\ annual_history[y]["Gross Bonus"] = Zero
           /\ annual_history[y]["Gross RSUs"] = Zero)
          => /\ annual_history[y]["Effective Tax Rate"] = Zero
             /\ compensation_history[y]["Effective Tax Rate"] = Zero

C5_Witness ==
    /\ outcome = "returned"
    /\ \E y \in DOMAIN annual_history :
          /\ annual_history[y]["Title"] = "Sabbatical"
          /\ annual_history[y]["Gross Income"] = Zero
          /\ annual_history[y]["Effective Tax Rate"] = Zero
          /\ Len(career_path[y - initial_year + 1].tax_manager.income_tax_schedules) = 2

\* a direct get_effective_tax_rate call has returned
EffectiveRateReturned == call.fn = "get_effective_tax_rate" /\ call.returned

\* a direct get_income_tax_rate call has returned
IncomeRateReturned == call.fn = "get_income_tax_rate" /\ call.returned

\* the schedule is non-empty, its limits are positive and strictly increasing and
\* its last limit is +infinity
WellFormed(s) ==
    /\ Len(s) >= 1
    /\ Lt(Zero, s[1].upper_limit)
    /\ \A k \in 1..(Len(s) - 1) : Lt(s[k].upper_limit, s[k + 1].upper_limit)
    /\ s[Len(s)].upper_limit = Inf

\* marginal rates do not decrease from bracket to bracket
Progressive(s) == \A k \in 1..(Len(s) - 1) : Le(s[k].rate, s[k + 1].rate)

\* C6: for a schedule of one bracket with rate r and upper limit +infinity and an
\* income > 0, get_effective_tax_rate returns r.
C6_SingleBracketRate ==
    (/\ EffectiveRateReturned
     /\ Len(call.tax_schedule) = 1
     /\ call.tax_schedule[1].upper_limit = Inf
     /\ Lt(Zero, call.income))
    => call.rate = call.tax_schedule[1].rate

C6_Witness ==
    /\ EffectiveRateReturned
    /\ call.tax_schedule = <<TaxBracket(Inf, Frac(1, 4))>>
    /\ call.income = R(3)
    /\ call.rate = Frac(1, 4)

\* C7: for a well-formed schedule with non-decreasing marginal rates, the effective
\* rate at an income i1 with 0 <= i1 <= i2 is at most the effective rate at i2.
C7_RateMonotoneInIncome ==
    (/\ EffectiveRateReturned
     /\ WellFormed(call.tax_schedule)
     /\ Progressive(call.tax_schedule))
    => \A i1 \in Incomes :
          (Le(Zero, i1) /\ Le(i1, call.income))
          => Le(get_effective_tax_rate(i1, call.tax_schedule), call.rate)

C7_Witness ==
    /\ EffectiveRateReturned
    /\ call.tax_schedule = <<TaxBracket(R(2), Frac(1, 4)), TaxBracket(Inf, Frac(1, 2))>>
    /\ call.income = R(4)
    /\ call.rate = Frac(3, 8)
    /\ Lt(get_effective_tax_rate(R(2), call.tax_schedule), call.rate)
    /\ Lt(get_effective_tax_rate(R(3), call.tax_schedule), call.rate)

\* the sum of the effective rates of the schedules of l, each at the same income
RECURSIVE SumOfEffectiveRates(_, _)
SumOfEffectiveRates(l, income) ==
    IF l = <<>> THEN Zero
    ELSE Add(get_effective_tax_rate(income, Head(l)),
             SumOfEffectiveRates(Tail(l), income))

\* C8: get_income_tax_rate(income) is the sum over the manager's schedules of
\* get_effective_tax_rate(income, S), every schedule taking the same income; for
\* two schedules [A, B] it is the rate under A plus the rate under B.
C8_StackingIsAdditive ==
    IncomeRateReturned
    => /\ call.rate = SumOfEffectiveRates(call.income_tax_schedules, call.income)
       /\ Len(call.income_tax_schedules) = 2
          => call.rate = Add(get_effective_tax_rate(call.income, call.income_tax_schedules[1]),
                             get_effective_tax_rate(call.income, call.income_tax_schedules[2]))

C8_Witness ==
    /\ IncomeRateReturned
    /\ call.income_tax_schedules = <<federal_brackets, sc_brackets>>
    /\ call.income = R(3)
    /\ call.rate = Frac(1, 4)
    /\ get_effective_tax_rate(R(3), federal_brackets) = Frac(1, 6)
    /\ get_effective_tax_rate(R(3), sc_brackets) = Frac(1, 12)

\* every bracket rate of the schedule lies in [0, 1]
RatesInUnitInterval(s) ==
    \A k \in 1..Len(s) : Le(Zero, s[k].rate) /\ Le(s[k].rate, One)

\* C9 as stated: for a non-negative income and a well-formed schedule with rates in
\* [0, 1], the effective rate is at least 0 and strictly less than 1.
C9_RateBelowOne ==
    (/\ EffectiveRateReturned
     /\ WellFormed(call.tax_schedule)
     /\ RatesInUnitInterval(call.tax_schedule)
     /\ Le(Zero, call.income))
    => Le(Zero, call.rate) /\ Lt(call.rate, One)

\* C9 as amended: for a non-negative income and a well-formed schedule with rates in
\* [0, 1], the effective rate is at least 0 and at most 1.
C9_RateInUnitInterval ==
    (/\ EffectiveRateReturned
     /\ WellFormed(call.tax_schedule)
     /\ RatesInUnitInterval(call.tax_schedule)
     /\ Le(Zero, call.income))
    => Le(Zero, call.rate) /\ Le(call.rate, One)

C9_Witness ==
    /\ EffectiveRateReturned
    /\ call.tax_schedule = <<TaxBracket(R(2), One), TaxBracket(Inf, One)>>
    /\ call.income = R(3)
    /\ call.rate = One

\* C10: the value a simulate_year call returns is the calculator's wealth after the
\* call and the 'Total Earned Wealth' of the snapshot that call recorded.
C10_ReturnsRecordedWealth ==
    outcome = "returned"
    => /\ result = current_wealth
       /\ (year - 1) \in DOMAIN annual_history
       /\ result = annual_history[year - 1]["Total Earned Wealth"]

C10_Witness ==
    /\ outcome = "returned"
    /\ step = 2
    /\ result # initial_wealth
    /\ result # annual_history[initial_year]["Total Earned Wealth"]
    /\ result = annual_history[initial_year + 1]["Total Earned Wealth"]

\* the package simulate_year was called with for year y
PackageOf(y) == career_path[y - initial_year + 1]

\* the column names the code gives the wealth view
WealthColumns ==
    {"Company", "Title", "Location", "Comment", "Gross Salary", "Gross Bonus",
     "Gross RSUs", "Retirement Match %", "Gross Income", "Effective Tax Rate",
     "Total Tax Burden", "Net Salary", "Net Bonus", "Net RSUs", "Retirement Match",
     "Income Adjustment", "Net Income", "Unrealized Investment Gain",
     "Total Earned Wealth"}

\* the column names the code gives the compensation view
CompensationColumns ==
    {"Company", "Title", "Location", "Salary", "Bonus", "Retirement Match %",
     "RSU Grant", "Effective Tax Rate", "Income Adjustment", "Comment"}

\* C13 as stated: every wealth entry has the columns Company, Title, Location,
\* Comment, Gross Salary, Gross Bonus, Gross Equity, Retirement Match %, Gross Income,
\* Effective Tax Rate, Total Tax Burden, Net Salary, Net Bonus, Net Equity,
\* Retirement Match, Income Adjustment, Net Income, Unrealized Investment Gain, Total
\* Earned Wealth, and every compensation entry the columns Company, Title, Location,
\* Salary, Bonus, Retirement-Match-%, Equity Grant, Effective Tax Rate, Income
\* Adjustment, Comment.
C13_ColumnsAsStated ==
    /\ \A y \in DOMAIN annual_history :
          DOMAIN annual_history[y] =
              {"Company", "Title", "Location", "Comment", "Gross Salary",
               "Gross Bonus", "Gross Equity", "Retirement Match %", "Gross Income",
               "Effective Tax Rate", "Total Tax Burden", "Net Salary", "Net Bonus",
               "Net Equity", "Retirement Match", "Income Adjustment", "Net Income",
               "Unrealized Investment Gain", "Total Earned Wealth"}
    /\ \A y \in DOMAIN compensation_history :
          DOMAIN compensation_history[y] =
              {"Company", "Title", "Location", "Salary", "Bonus",
               "Retirement-Match-%", "Equity Grant", "Effective Tax Rate",
               "Income Adjustment", "Comment"}

\* C13 as amended: every wealth entry has exactly the 19 columns of the claim with
\* the equity columns named 'Gross RSUs' and 'Net RSUs', and every compensation entry
\* exactly the 10 columns of the claim with 'Retirement Match %' and 'RSU Grant' for
\* 'Retirement-Match-%' and 'Equity Grant'.
C13_ColumnSets ==
    /\ \A y \in DOMAIN annual_history :
          /\ DOMAIN annual_history[y] = WealthColumns
          /\ Cardinality(DOMAIN annual_history[y]) = 19
    /\ \A y \in DOMAIN compensation_history :
          /\ DOMAIN compensation_history[y] = CompensationColumns
          /\ Cardinality(DOMAIN compensation_history[y]) = 10

C13_Witness ==
    /\ step = 2
    /\ DOMAIN annual_history[initial_year + 1] = WealthColumns
    /\ DOMAIN compensation_history[initial_year + 1] = CompensationColumns
    /\ annual_history[initial_year + 1]["Gross RSUs"] = R(1)
    /\ compensation_history[initial_year + 1]["RSU Grant"] = R(1)

\* C14 as stated: the income simulate_year hands to the evaluator, which it records
\* as 'Gross Income', is never negative, whatever packages the caller constructs.
C14_IncomeNeverNegative ==
    \A y \in DOMAIN annual_history : Le(Zero, annual_history[y]["Gross Income"])

\* C14 as amended: the income simulate_year hands to the evaluator is salary + bonus
\* + rsu_grant of the package, whatever the current wealth; it is non-negative when
\* none of the three amounts is negative, also in years that start with negative
\* wealth.
C14_IncomeFromPackageAlone ==
    \A y \in DOMAIN annual_history :
        LET comp == PackageOf(y)
        IN  /\ annual_history[y]["Gross Income"] =
                   Add(Add(comp.salary, comp.bonus), comp.rsu_grant)
            /\ (Le(Zero, comp.salary) /\ Le(Zero, comp.bonus) /\ Le(Zero, comp.rsu_grant))
               => Le(Zero, annual_history[y]["Gross Income"])

C14_Witness ==
    \E y \in DOMAIN annual_history :
        /\ (y - 1) \in DOMAIN annual_history
        /\ Lt(annual_history[y - 1]["Total Earned Wealth"], Zero)
        /\ Lt(Zero, assumed_real_market_growth)
        /\ Lt(Zero, annual_history[y]["Gross Income"])

\* C17: simulate_year computes one rate, the stacked rate of the package's tax manager
\* at salary + bonus + rsu_grant, and applies it to each component: net salary, net
\* bonus and net RSUs are salary, bonus and rsu_grant times (1 - rate).
C17_OneRateForAllComponents ==
    \A y \in DOMAIN annual_history :
        LET comp == PackageOf(y)
            rate == get_income_tax_rate(comp.tax_manager,
                                        Add(Add(comp.salary, comp.bonus), comp.rsu_grant))
            d == annual_history[y]
        IN  /\ d["Effective Tax Rate"] = rate
            /\ d["Net Salary"] = Mul(comp.salary, Sub(One, rate))
            /\ d["Net Bonus"] = Mul(comp.bonus, Sub(One, rate))
            /\ d["Net RSUs"] = Mul(comp.rsu_grant, Sub(One, rate))

C17_Witness ==
    \E y \in DOMAIN annual_history :
        /\ annual_history[y]["Title"] = "SWE II"
        /\ annual_history[y]["Effective Tax Rate"] = Frac(5, 8)
        /\ annual_history[y]["Net Salary"] = Frac(9, 8)
        /\ annual_history[y]["Net RSUs"] = Frac(3, 8)

\* C18: the recorded net income is net salary + net bonus + net RSUs + retirement
\* match + income adjustment; a negative adjustment lowers net income, and with it
\* the wealth, by its full amount, untaxed and unclamped.
C18_NetIncomeIsSumOfParts ==
    \A y \in DOMAIN annual_history :
        LET d == annual_history[y]
            before_adjustment ==
                Add(Add(Add(d["Net Salary"], d["Net Bonus"]), d["Net RSUs"]),
                    d["Retirement Match"])
            wealth_before ==
                IF y = initial_year THEN initial_wealth
                ELSE annual_history[y - 1]["Total Earned Wealth"]
        IN  /\ d["Income Adjustment"] = PackageOf(y).income_adjustment
            /\ d["Net Income"] = Add(before_adjustment, d["Income Adjustment"])
            /\ d["Total Earned Wealth"] =
                   Add(Add(Add(wealth_before, d["Unrealized Investment Gain"]),
                           before_adjustment),
                       d["Income Adjustment"])

C18_Witness ==
    \E y \in DOMAIN annual_history :
        /\ annual_history[y]["Income Adjustment"] = R(-2)
        /\ annual_history[y]["Net Income"] = Frac(-1, 2)
        /\ Lt(Zero, annual_history[y]["Net Salary"])

\* C19: the retirement match is salary * retirement_match_percentage, taken on the
\* base salary only; it is no part of the gross income the rate is computed on and it
\* enters net income in full, untaxed.
C19_MatchOnSalaryUntaxed ==
    \A y \in DOMAIN annual_history :
        LET comp == PackageOf(y)
            d == annual_history[y]
            match == Mul(comp.salary, comp.retirement_match_percentage)
        IN  /\ d["Retirement Match"] = match
            /\ d["Gross Income"] = Add(Add(comp.salary, comp.bonus), comp.rsu_grant)
            /\ d["Total Tax Burden"] = Mul(d["Gross Income"], d["Effective Tax Rate"])
            /\ Sub(d["Net Income"],
                   Add(Add(Add(d["Net Salary"], d["Net Bonus"]), d["Net RSUs"]),
                       d["Income Adjustment"])) = match

C19_Witness ==
    \E y \in DOMAIN annual_history :
        /\ annual_history[y]["Title"] = "LPB Engineer"
        /\ annual_history[y]["Retirement Match"] = One
        /\ annual_history[y]["Gross Bonus"] = One
        /\ annual_history[y]["Gross Income"] = R(3)
        /\ Lt(Zero, annual_history[y]["Effective Tax Rate"])

\* limits that fail to increase strictly, or a last bracket with a finite limit
Malformed(s) ==
    \/ \E k \in 1..(Len(s) - 1) : ~Lt(s[k].upper_limit, s[k + 1].upper_limit)
    \/ Len(s) >= 1 /\ s[Len(s)].upper_limit # Inf

\* C15: a malformed schedule (limits not strictly increasing, or a finite last limit)
\* is rejected when it is constructed, so no effective rate is ever returned for one.
C15_MalformedScheduleRejected ==
    /\ EffectiveRateReturned => ~Malformed(call.tax_schedule)
    /\ IncomeRateReturned =>
          \A k \in 1..Len(call.income_tax_schedules) :
              ~Malformed(call.income_tax_schedules[k])

Max(a, b) == IF Lt(a, b) THEN b ELSE a

\* the marginal tax of the brackets j..Len(s): the sum of
\* r_j * max(0, min(income, u_j) - u_(j-1)), with u_0 = 0
RECURSIVE MarginalTaxFrom(_, _, _)
MarginalTaxFrom(s, j, income) ==
    IF j > Len(s) THEN Zero
    ELSE LET lower == IF j = 1 THEN Zero ELSE s[j - 1].upper_limit
             slice == Max(Zero, Sub(Min(income, s[j].upper_limit), lower))
         IN  Add(Mul(s[j].rate, slice), MarginalTaxFrom(s, j + 1, income))

\* C16: for a well-formed schedule and an income > 0 the returned rate times the
\* income is the marginal tax sum over all brackets, so the early exit skips no
\* bracket that holds income; for [(11925, 0.10), (48475, 0.12), (inf, 0.22)] and
\* income 50000 the tax is 5914 and the rate 0.11828.
C16_MarginalTaxSum ==
    (/\ EffectiveRateReturned
     /\ WellFormed(call.tax_schedule)
     /\ Lt(Zero, call.income))
    => /\ Mul(call.rate, call.income) = MarginalTaxFrom(call.tax_schedule, 1, call.income)
       /\ (call.tax_schedule = scenario_brackets /\ call.income = R(50000))
          => /\ Mul(call.rate, call.income) = R(5914)
             /\ call.rate = Frac(11828, 100000)

C16_Witness ==
    /\ EffectiveRateReturned
    /\ call.tax_schedule = scenario_brackets
    /\ call.income = R(50000)
    /\ call.rate = Frac(11828, 100000)
    /\ TotalTax(R(50000), scenario_brackets) =
           Add(Add(Frac(11925, 10), R(4386)), Frac(3355, 10))

\* the annual history / compensation history dict of calculator i of the fleet
AnnualHistoryOf(i) == heap[fleet[i].annual_history]
CompensationHistoryOf(i) == heap[fleet[i].compensation_history]

\* wealth of calculator i of the fleet after year y
WealthAfter(i, y) == AnnualHistoryOf(i)[y]["Total Earned Wealth"]

\* calculators i and j were constructed alike and driven along the same packages
SameStartAndPath(i, j) ==
    /\ fleet[i].initial_wealth = fleet[j].initial_wealth
    /\ fleet[i].initial_year = fleet[j].initial_year
    /\ fleet[i].career_path = fleet[j].career_path

\* the wealth of calculator i is non-negative initially and after every year up to y
NonNegativeUpTo(i, y) ==
    /\ Le(Zero, fleet[i].initial_wealth)
    /\ \A z \in DOMAIN AnnualHistoryOf(i) : z <= y => Le(Zero, WealthAfter(i, z))

\* calculator j ends every year, up to which both trajectories are non-negative,
\* at least as wealthy as calculator i
NeverBehind(i, j) ==
    \A y \in DOMAIN AnnualHistoryOf(i) \cap DOMAIN AnnualHistoryOf(j) :
        (/\ AnnualHistoryOf(i)[y]["Net Income"] = AnnualHistoryOf(j)[y]["Net Income"]
         /\ NonNegativeUpTo(i, y)
         /\ NonNegativeUpTo(j, y))
        => Le(WealthAfter(i, y), WealthAfter(j, y))

\* C11 as stated: two calculators with the same initial wealth and year, driven
\* by the same packages, growth rates g1 <= g2, non-negative trajectories: after
\* every year the wealth under g2 is at least the wealth under g1.
C11_HigherGrowthNeverBehind ==
    \A i, j \in DOMAIN fleet :
        (/\ SameStartAndPath(i, j)
         /\ Le(fleet[i].assumed_real_market_growth, fleet[j].assumed_real_market_growth))
        => NeverBehind(i, j)

\* C11, amended: the same with growth rates of at least -1 (-1 <= g1 <= g2), so
\* that a non-negative balance is never turned negative by its own growth.
C11_HigherGrowthNeverBehindFromMinusOne ==
    \A i, j \in DOMAIN fleet :
        (/\ SameStartAndPath(i, j)
         /\ Le(R(-1), fleet[i].assumed_real_market_growth)
         /\ Le(fleet[i].assumed_real_market_growth, fleet[j].assumed_real_market_growth))
        => NeverBehind(i, j)

\* two years simulated by both calculators at growth rates 0 < 1/2, both
\* trajectories non-negative, the second calculator strictly ahead
C11_Witness ==
    /\ DOMAIN fleet = Calculators
    /\ fleet[1].assumed_real_market_growth = Zero
    /\ fleet[2].assumed_real_market_growth = Frac(1, 2)
    /\ fleet[1].step = 2 /\ fleet[2].step = 2
    /\ NonNegativeUpTo(1, 2026) /\ NonNegativeUpTo(2, 2026)
    /\ Lt(WealthAfter(1, 2026), WealthAfter(2, 2026))

\* the state of a calculator after its first k simulate_year calls, run alone
RECURSIVE RunAlone(_, _)
RunAlone(c, k) ==
    IF k = 0
    THEN [current_wealth |-> c.initial_wealth, year |-> c.initial_year,
          annual_history |-> <<>>, compensation_history |-> <<>>]
    ELSE LET prev == RunAlone(c, k - 1)
             sim == SimulationOf([current_wealth |-> prev.current_wealth,
                                  assumed_real_market_growth |->
                                      c.assumed_real_market_growth],
                                 c.career_path[k])
         IN  [current_wealth |-> sim.wealth,
              year |-> IncrementYear(prev.year),
              annual_history |-> StoreAt(prev.annual_history, prev.year, sim.year_details),
              compensation_history |->
                  StoreAt(prev.compensation_history, prev.year, sim.comp_details)]

\* wealth, year counter and histories of calculator i of the fleet
ObservedState(i) ==
    [current_wealth |-> fleet[i].current_wealth, year |-> fleet[i].year,
     annual_history |-> AnnualHistoryOf(i),
     compensation_history |-> CompensationHistoryOf(i)]

\* every calculator is where its own calls, run alone in the same order, leave it
SameAsAlone == \A i \in DOMAIN fleet : ObservedState(i) = RunAlone(fleet[i], fleet[i].step)

\* a simulate_year call of one calculator leaves the others as they were
OthersUntouched ==
    \E i \in DOMAIN fleet :
        \A j \in DOMAIN fleet \ {i} :
            /\ fleet'[j] = fleet[j]
            /\ heap'[fleet[j].annual_history] = heap[fleet[j].annual_history]
            /\ heap'[fleet[j].compensation_history] = heap[fleet[j].compensation_history]

\* C12: separately constructed calculators share no mutable state: a
\* simulate_year call on one leaves the wealth, year counter and histories of
\* every other unchanged, and under every interleaving each calculator has the
\* history and wealth its own calls produce when run alone in the same order.
C12_NoSharedMutableState == []SameAsAlone /\ [][OthersUntouched]_vars

\* both calculators advanced, in an interleaving that left them at different
\* positions of the same path, each with its own histories
C12_Witness ==
    /\ DOMAIN fleet = Calculators
    /\ fleet[1].step = 2 /\ fleet[2].step = 1
    /\ fleet[1].assumed_real_market_growth # fleet[2].assumed_real_market_growth
    /\ DOMAIN AnnualHistoryOf(1) = {2025, 2026}
    /\ DOMAIN AnnualHistoryOf(2) = {2025}
    /\ AnnualHistoryOf(1)[2025] # AnnualHistoryOf(2)[2025]
    /\ fleet[1].annual_history # fleet[2].annual_history

\* the names of the two evaluator functions
EvaluatorFunctions == {"get_effective_tax_rate", "get_income_tax_rate"}

\* a step in which simulate_year is not called leaves wealth, year counter and
\* both histories as they were
FrameOfOtherCalls ==
    (step' = step) =>
        UNCHANGED <<current_wealth, year, annual_history, compensation_history>>

\* an evaluator call returns with the schedules it was given
SchedulesKept ==
    (call.fn \in EvaluatorFunctions /\ ~call.returned /\ call' # call) =>
        /\ call'.fn = call.fn
        /\ call'.income = call.income
        /\ call'.tax_schedule = call.tax_schedule
        /\ call'.income_tax_schedules = call.income_tax_schedules

\* C20: only simulate_year changes the calculator: get_compensation_history_df,
\* get_worth_history_df, get_effective_tax_rate, get_income_tax_rate and
\* to_dict leave wealth, year counter and both histories unchanged, and the
\* evaluator leaves the schedule it is given unchanged.
C20_OnlySimulateYearMutates == [][FrameOfOtherCalls /\ SchedulesKept]_vars

\* two years are recorded and get_worth_history_df has just returned them as a
\* frame of two rows, the recorded history still in place
C20_Witness ==
    /\ step = 2
    /\ call.fn = "get_worth_history_df"
    /\ call.value.index = <<initial_year, initial_year + 1>>
    /\ call.value.at = annual_history
    /\ DOMAIN annual_history = {initial_year, initial_year + 1}
    /\ DOMAIN compensation_history = {initial_year, initial_year + 1}

\* the history gained the entry of year y and kept every entry it had
OneEntryAdded(before, after, y) ==
    /\ y \notin DOMAIN before
    /\ DOMAIN after = DOMAIN before \cup {y}
    /\ \A z \in DOMAIN before : after[z] = before[z]

\* what a simulate_year call leaves alone and what it adds
FrameOfSimulateYear ==
    (step' = step + 1) =>
        /\ assumed_real_market_growth' = assumed_real_market_growth
        /\ Len(career_path') = Len(career_path)
        /\ career_path'[step + 1] = career_path[step + 1]
        /\ career_path'[step + 1].tax_manager.income_tax_schedules =
               career_path[step + 1].tax_manager.income_tax_schedules
        /\ career_path' = career_path
        /\ (outcome' = "returned") =>
              /\ OneEntryAdded(annual_history, annual_history', year)
              /\ OneEntryAdded(compensation_history, compensation_history', year)

\* C21: a simulate_year call leaves assumed_real_market_growth, the package passed
\* to it and that package's tax manager and schedules unchanged; it changes only
\* current wealth, the year counter and the two histories, each of which gains
\* exactly one entry.
C21_SimulateYearFrame == [][FrameOfSimulateYear]_vars

\* a package with an income adjustment and three stacked schedules has been
\* simulated as the second year and is still what it was
C21_Witness ==
    /\ step = 2
    /\ outcome = "returned"
    /\ career_path[2].title = "SWE II"
    /\ career_path[2].income_adjustment = R(-2)
    /\ Len(career_path[2].tax_manager.income_tax_schedules) = 3
    /\ DOMAIN annual_history = {initial_year, initial_year + 1}
    /\ DOMAIN compensation_history = {initial_year, initial_year + 1}
    /\ compensation_history[initial_year + 1]["Income Adjustment"] = R(-2)

\* the entry of the latest recorded year
LatestSnapshot ==
    annual_history[CHOOSE y \in DOMAIN annual_history :
                       \A z \in DOMAIN annual_history : z <= y]

\* C22: current wealth is the 'Total Earned Wealth' of the latest snapshot, or the
\* initial wealth when no year has been simulated, and for consecutive recorded
\* years y, y+1 the gain of y+1 is the wealth of y times g and the wealth of y+1
\* is the wealth of y times (1+g) plus the net income of y+1.
C22_WealthChain ==
    /\ current_wealth = IF DOMAIN annual_history = {} THEN initial_wealth
                        ELSE LatestSnapshot["Total Earned Wealth"]
    /\ \A y \in DOMAIN annual_history :
          (y + 1) \in DOMAIN annual_history =>
              /\ annual_history[y + 1]["Unrealized Investment Gain"] =
                     Mul(annual_history[y]["Total Earned Wealth"],
                         assumed_real_market_growth)
              /\ annual_history[y + 1]["Total Earned Wealth"] =
                     Add(Mul(annual_history[y]["Total Earned Wealth"],
                             Add(One, assumed_real_market_growth)),
                         annual_history[y + 1]["Net Income"])

\* two consecutive years recorded at growth 1/2, the first leaving a balance
\* that earns a gain in the second, which also has net income
C22_Witness ==
    /\ assumed_real_market_growth = Frac(1, 2)
    /\ DOMAIN annual_history = {initial_year, initial_year + 1}
    /\ Lt(Zero, annual_history[initial_year]["Total Earned Wealth"])
    /\ Lt(Zero, annual_history[initial_year + 1]["Unrealized Investment Gain"])
    /\ Lt(Zero, annual_history[initial_year + 1]["Net Income"])
    /\ current_wealth = annual_history[initial_year + 1]["Total Earned Wealth"]
    /\ current_wealth # initial_wealth

\* C23: in every snapshot 'Total Tax Burden' is 'Gross Income' times 'Effective
\* Tax Rate', the rate being the one computed from that same gross income, and
\* 'Net Salary' + 'Net Bonus' + 'Net RSUs' + 'Total Tax Burden' is 'Gross Income',
\* which is 'Gross Salary' + 'Gross Bonus' + 'Gross RSUs'.
C23_TaxBurdenBalances ==
    \A y \in DOMAIN annual_history :
        LET e == annual_history[y]
        IN  /\ e["Gross Income"] =
                   Add(Add(e["Gross Salary"], e["Gross Bonus"]), e["Gross RSUs"])
            /\ e["Effective Tax Rate"] =
                   get_income_tax_rate(PackageOf(y).tax_manager, e["Gross Income"])
            /\ e["Total Tax Burden"] = Mul(e["Gross Income"], e["Effective Tax Rate"])
            /\ Add(Add(Add(e["Net Salary"], e["Net Bonus"]), e["Net RSUs"]),
                   e["Total Tax Burden"]) = e["Gross Income"]

\* a snapshot of salary 3 and RSUs 1 taxed at a rate strictly between 0 and 1
\* other than 1/2, so that the burden and the net amounts differ
C23_Witness ==
    \E y \in DOMAIN annual_history :
        /\ annual_history[y]["Gross Salary"] = R(3)
        /\ annual_history[y]["Gross RSUs"] = One
        /\ annual_history[y]["Gross Income"] = R(4)
        /\ Lt(Zero, annual_history[y]["Effective Tax Rate"])
        /\ Lt(annual_history[y]["Effective Tax Rate"], One)
        /\ annual_history[y]["Effective Tax Rate"] # Frac(1, 2)
        /\ Lt(Zero, annual_history[y]["Total Tax Burden"])
        /\ Lt(Zero, annual_history[y]["Net RSUs"])

\* the fields both views carry under the same name
SharedFields == {"Company", "Title", "Location", "Comment", "Income Adjustment"}

C25_NegativeIncomeUntaxed ==
    /\ (EffectiveRateReturned /\ Lt(call.income, Zero)) =>
          /\ call.rate = Zero
          /\ TotalTax(call.income, call.tax_schedule) = Zero
    /\ (IncomeRateReturned /\ Lt(call.income, Zero)) =>
          /\ call.rate = Zero
          /\ \A k \in 1..Len(call.income_tax_schedules) :
                 TotalTax(call.income, call.income_tax_schedules[k]) = Zero

\* income -1 was evaluated on a schedule of two brackets that taxes every
\* positive income in full, and the rate returned is 0
C25_Witness ==
    /\ EffectiveRateReturned
    /\ call.income = R(-1)
    /\ Len(call.tax_schedule) = 2
    /\ call.tax_schedule[1].rate = One
    /\ call.tax_schedule[2].rate = One
    /\ call.tax_schedule[2].upper_limit = Inf
    /\ call.rate = Zero

\* the limits increase strictly and the last one is finite
IncreasingToFiniteLimit(s) ==
    /\ Len(s) >= 1
    /\ \A k \in 1..(Len(s) - 1) : Lt(s[k].upper_limit, s[k + 1].upper_limit)
    /\ IsFinite(s[Len(s)].upper_limit)

\* C26: for a schedule with strictly increasing limits whose last limit L is
\* finite and an income > L, the evaluator raises no error and taxes the income as
\* it taxes L alone: the part above L is taxed at rate 0 and the rate returned is
\* tax(L) / income.
C26_IncomeAboveLastLimitUntaxed ==
    (/\ EffectiveRateReturned
     /\ IncreasingToFiniteLimit(call.tax_schedule)
     /\ Lt(call.tax_schedule[Len(call.tax_schedule)].upper_limit, call.income))
    => LET s == call.tax_schedule
           L == s[Len(s)].upper_limit
       IN  /\ call.rate # ZeroDivisionError
           /\ call.rate = Div(TotalTax(L, s), call.income)
           /\ Mul(call.rate, call.income) = TotalTax(L, s)
           /\ Lt(Zero, s[1].upper_limit) =>
                 Mul(call.rate, call.income) = MarginalTaxFrom(s, 1, L)

\* income 4 on the schedule [(1, 1/4), (2, 1/2)]: the tax is 1/4 + 1/2 and the
\* rate 3/16, the income between 2 and 4 being untaxed
C26_Witness ==
    /\ EffectiveRateReturned
    /\ call.tax_schedule = <<TaxBracket(R(1), Frac(1, 4)), TaxBracket(R(2), Frac(1, 2))>>
    /\ call.income = R(4)
    /\ call.rate = Frac(3, 16)

\* bracket k of s has an upper limit not above that of the bracket before it
NotAbovePrevious(s, k) == k >= 2 /\ Le(s[k].upper_limit, s[k - 1].upper_limit)

\* the first bracket of s whose upper limit is not above the previous one
FirstNotAbovePrevious(s) ==
    CHOOSE k \in 2..Len(s) :
        NotAbovePrevious(s, k) /\ \A j \in 2..(k - 1) : ~NotAbovePrevious(s, j)

LowerBound(s, j) == IF j = 1 THEN Zero ELSE s[j - 1].upper_limit

\* the marginal rates of the brackets of s that the income reaches
ReachedRates(s, income) ==
    { s[j].rate : j \in { i \in 1..Len(s) : Lt(LowerBound(s, i), income) } }

====
